---------------------------- MODULE Spec2Model ----------------------------
(***************************************************************************)
(* A model of wordle-rust: the game definition built from a word file     *)
(* (WordleGame::from_config), the session engine (WordleSession::guess,   *)
(* eval, eval_valid) and the terminal loop that drives it                  *)
(* (WordleSessionCLI::run, run_loop).                                      *)
(*                                                                         *)
(* A String is modelled as the sequence of its chars, a char as its code   *)
(* point.  String::len() is the length of the UTF-8 encoding in bytes and  *)
(* the ordering of Strings is the ordering of their bytes, so both are     *)
(* computed from the encoding (Utf8, len, StrLess).                        *)
(***************************************************************************)
EXTENDS Integers, Sequences, FiniteSets, TLC

VARIABLES
    pc,           \* position of the program: see TypeOK
    file_lines,   \* from_config's `word_list` as read from the word file
    game,         \* the WordleGame (word, word_list, word_len, max_guesses)
    guesses,      \* WordleSession.guesses: sequence of <<word, validity>>
    input,        \* run_loop's `input` / the tests' argument of eval
    result,       \* run's `result`: Result<GameResult, GuessResult>
    eval_result   \* the GuessResult of the last call of eval

vars == <<pc, file_lines, game, guesses, input, result, eval_result>>

---------------------------------------------------------------------------
(* Bounds of the model.                                                    *)

\* lines of the word file
MaxLines == 3
\* largest value of --max-guesses explored (0 is a legal u32)
MaxBudget == 2
\* longest word of the exhaustive evaluation fixtures
EvalLen == 4

---------------------------------------------------------------------------
(* Strings.                                                                *)

\* The UTF-8 encoding of a char below U+0800.
Utf8(c) == IF c < 128 THEN <<c>> ELSE <<192 + (c \div 64), 128 + (c % 64)>>

RECURSIVE Bytes(_)
Bytes(w) == IF w = <<>> THEN <<>> ELSE Utf8(Head(w)) \o Bytes(Tail(w))

\* String::len(): the number of bytes.
len(w) == Len(Bytes(w))

\* Ord for [u8]: lexicographic, a proper prefix is smaller.
RECURSIVE BytesLess(_, _)
BytesLess(x, y) ==
    IF y = <<>> THEN FALSE
    ELSE IF x = <<>> THEN TRUE
    ELSE IF Head(x) < Head(y) THEN TRUE
    ELSE IF Head(x) > Head(y) THEN FALSE
    ELSE BytesLess(Tail(x), Tail(y))

\* Ord for String.
StrLess(a, b) == BytesLess(Bytes(a), Bytes(b))

\* char::is_whitespace for the chars of the model: tab, LF, CR, space.
White == {9, 10, 13, 32}

RECURSIVE TrimStart(_)
TrimStart(w) ==
    IF w # <<>> /\ Head(w) \in White THEN TrimStart(Tail(w)) ELSE w

RECURSIVE TrimEnd(_)
TrimEnd(w) ==
    IF w # <<>> /\ w[Len(w)] \in White
    THEN TrimEnd(SubSeq(w, 1, Len(w) - 1)) ELSE w

\* str::trim().
trim(w) == TrimEnd(TrimStart(w))

\* Insert a word into a sorted list, keeping it sorted.
RECURSIVE Insert(_, _)
Insert(w, s) ==
    IF s = <<>> THEN <<w>>
    ELSE IF StrLess(Head(s), w) THEN <<Head(s)>> \o Insert(w, Tail(s))
    ELSE <<w>> \o s

\* sort_unstable, had from_config left the lines in the order of the file.
sort_unstable_Skipped(s) == s

\* Vec<String>::sort_unstable(): the ascending permutation of the list.
RECURSIVE sort_unstable(_)
sort_unstable(s) ==
    IF s = <<>> THEN <<>> ELSE Insert(Head(s), sort_unstable(Tail(s)))

\* [String]::binary_search(&word).is_ok(), by the halving loop of the
\* standard library over the half-open range left..right (0-based).
RECURSIVE BinSearch(_, _, _, _)
BinSearch(list, word, left, right) ==
    IF left >= right THEN FALSE
    ELSE LET mid == left + ((right - left) \div 2)
             e   == list[mid + 1]
         IN  IF StrLess(e, word) THEN BinSearch(list, word, mid + 1, right)
             ELSE IF StrLess(word, e) THEN BinSearch(list, word, left, mid)
             ELSE TRUE

\* binary_search, had the halving loop never looked at the last word.
binary_search_SkipsLast(list, word) == BinSearch(list, word, 0, Len(list) - 1)

binary_search(list, word) == BinSearch(list, word, 0, Len(list))

---------------------------------------------------------------------------
(* The session engine (src/src/lib.rs).                                    *)

Correct == "Correct"
WrongPos == "WrongPos"
Incorrect == "Incorrect"

\* Counter<char> collected from the chars of a word: its keys are the chars
\* that occur, each with its number of occurrences.
Counter(w) ==
    [c \in {w[i] : i \in 1..Len(w)} |-> Cardinality({i \in 1..Len(w) : w[i] = c})]

\* The first loop, had it left the count of a letter found in its place.
RECURSIVE FirstPass_NoDecrement(_, _, _, _, _)
FirstPass_NoDecrement(target, word, i, letter_count, res) ==
    IF i > Len(word)
    THEN [panicked |-> FALSE, letter_count |-> letter_count, result |-> res]
    ELSE IF i > Len(target)
    THEN [panicked |-> TRUE, letter_count |-> letter_count, result |-> res]
    ELSE IF target[i] = word[i]
    THEN FirstPass_NoDecrement(target, word, i + 1, letter_count,
                               Append(res, Correct))
    ELSE FirstPass_NoDecrement(target, word, i + 1, letter_count,
                               Append(res, Incorrect))

\* eval_valid, first loop, from the i-th char of `word` on.  The target's
\* i-th char is fetched with chars().nth(i).unwrap(), which panics when the
\* target has fewer chars than the guess.
RECURSIVE FirstPass(_, _, _, _, _)
FirstPass(target, word, i, letter_count, res) ==
    IF i > Len(word)
    THEN [panicked |-> FALSE, letter_count |-> letter_count, result |-> res]
    ELSE IF i > Len(target)
    THEN [panicked |-> TRUE, letter_count |-> letter_count, result |-> res]
    ELSE IF target[i] = word[i]
    THEN FirstPass(target, word, i + 1,
                   [letter_count EXCEPT ![word[i]] = @ - 1],
                   Append(res, Correct))
    ELSE FirstPass(target, word, i + 1, letter_count, Append(res, Incorrect))

\* The second loop, had it left the count of a letter marked WrongPos.
RECURSIVE SecondPass_NoDecrement(_, _, _, _)
SecondPass_NoDecrement(word, i, letter_count, res) ==
    IF i > Len(word) THEN res
    ELSE IF /\ res[i] = Incorrect
            /\ word[i] \in DOMAIN letter_count
            /\ letter_count[word[i]] # 0
    THEN SecondPass_NoDecrement(word, i + 1, letter_count,
                                [res EXCEPT ![i] = WrongPos])
    ELSE SecondPass_NoDecrement(word, i + 1, letter_count, res)

\* The second loop, had it marked a char found elsewhere in the target
\* Correct.
RECURSIVE SecondPass_MarksCorrect(_, _, _, _)
SecondPass_MarksCorrect(word, i, letter_count, res) ==
    IF i > Len(word) THEN res
    ELSE IF /\ res[i] = Incorrect
            /\ word[i] \in DOMAIN letter_count
            /\ letter_count[word[i]] # 0
    THEN SecondPass_MarksCorrect(word, i + 1,
                                 [letter_count EXCEPT ![word[i]] = @ - 1],
                                 [res EXCEPT ![i] = Correct])
    ELSE SecondPass_MarksCorrect(word, i + 1, letter_count, res)

\* The second loop, had it gone through the word from its last char.
RECURSIVE SecondPass_FromTheRight(_, _, _, _)
SecondPass_FromTheRight(word, i, letter_count, res) ==
    IF i > Len(word) THEN res
    ELSE LET k == Len(word) + 1 - i
         IN  IF /\ res[k] = Incorrect
                /\ word[k] \in DOMAIN letter_count
                /\ letter_count[word[k]] # 0
             THEN SecondPass_FromTheRight(word, i + 1,
                                          [letter_count EXCEPT ![word[k]] = @ - 1],
                                          [res EXCEPT ![k] = WrongPos])
             ELSE SecondPass_FromTheRight(word, i + 1, letter_count, res)

\* eval_valid, second loop, from the i-th (char, validity) pair on.
RECURSIVE SecondPass(_, _, _, _)
SecondPass(word, i, letter_count, res) ==
    IF i > Len(word) THEN res
    ELSE IF /\ res[i] = Incorrect
            /\ word[i] \in DOMAIN letter_count
            /\ letter_count[word[i]] # 0
    THEN SecondPass(word, i + 1,
                    [letter_count EXCEPT ![word[i]] = @ - 1],
                    [res EXCEPT ![i] = WrongPos])
    ELSE SecondPass(word, i + 1, letter_count, res)

\* WordleSession::eval_valid: the validity of each char of `word` against
\* the target, or a panic.
eval_valid(target, word) ==
    LET p1 == FirstPass(target, word, 1, Counter(target), <<>>)
    IN  IF p1.panicked THEN [panicked |-> TRUE, result |-> <<>>]
        ELSE [panicked |-> FALSE,
              result |-> SecondPass(word, 1, p1.letter_count, p1.result)]

\* The GuessResult values.
GuessOk(v) == [kind |-> "Ok", validity |-> v]
NotInDict == [kind |-> "NotInDict", validity |-> <<>>]
AlreadyUsed == [kind |-> "AlreadyUsed", validity |-> <<>>]
Invalid == [kind |-> "Invalid", validity |-> <<>>]
\* no call of eval yet
NoEval == [kind |-> "None", validity |-> <<>>]

\* self.guesses.iter().any(|w| w.0 == *word)
Used(g, word) == \E k \in 1..Len(g) : g[k][1] = word

\* eval, had it not looked for the word among the guesses made.
eval_NoUsedCheck(gm, g, word) ==
    IF len(word) # gm.word_len THEN [panicked |-> FALSE, result |-> Invalid]
    ELSE IF ~binary_search(gm.word_list, word)
    THEN [panicked |-> FALSE, result |-> NotInDict]
    ELSE LET v == eval_valid(gm.word, word)
         IN  [panicked |-> v.panicked, result |-> GuessOk(v.result)]

\* eval, had it searched the word list before comparing the lengths.
eval_DictFirst(gm, g, word) ==
    IF ~binary_search(gm.word_list, word)
    THEN [panicked |-> FALSE, result |-> NotInDict]
    ELSE IF len(word) # gm.word_len THEN [panicked |-> FALSE, result |-> Invalid]
    ELSE IF Used(g, word) THEN [panicked |-> FALSE, result |-> AlreadyUsed]
    ELSE LET v == eval_valid(gm.word, word)
         IN  [panicked |-> v.panicked, result |-> GuessOk(v.result)]

\* eval, had it not compared the length of the word with word_len.
eval_NoLenCheck(gm, g, word) ==
    IF Used(g, word) THEN [panicked |-> FALSE, result |-> AlreadyUsed]
    ELSE IF ~binary_search(gm.word_list, word)
    THEN [panicked |-> FALSE, result |-> NotInDict]
    ELSE LET v == eval_valid(gm.word, word)
         IN  [panicked |-> v.panicked, result |-> GuessOk(v.result)]

\* WordleSession::eval: [panicked, result: a GuessResult].
eval(gm, g, word) ==
    IF len(word) # gm.word_len THEN [panicked |-> FALSE, result |-> Invalid]
    ELSE IF Used(g, word) THEN [panicked |-> FALSE, result |-> AlreadyUsed]
    ELSE IF ~binary_search(gm.word_list, word)
    THEN [panicked |-> FALSE, result |-> NotInDict]
    ELSE LET v == eval_valid(gm.word, word)
         IN  [panicked |-> v.panicked, result |-> GuessOk(v.result)]

\* Result<GameResult, GuessResult> of guess.
Ok(r) == [ok |-> TRUE, val |-> r]
Err(r) == [ok |-> FALSE, val |-> r.kind]

\* guess, had it pushed the word before looking at what eval returned.
guess_PushBeforeMatch(gm, g, word) ==
    LET e == eval(gm, g, word)
        pushed == Append(g, <<word, e.result.validity>>)
    IN  IF e.panicked
        THEN [panicked |-> TRUE, guesses |-> g, result |-> Ok("Cont"),
              eval_result |-> NoEval]
        ELSE IF e.result.kind = "Ok"
        THEN [panicked |-> FALSE, guesses |-> pushed,
              result |-> IF gm.word = word THEN Ok("Win")
                         ELSE IF Len(pushed) = gm.max_guesses
                         THEN Ok("OutOfGuesses")
                         ELSE Ok("Cont"),
              eval_result |-> e.result]
        ELSE [panicked |-> FALSE, guesses |-> pushed, result |-> Err(e.result),
              eval_result |-> e.result]

\* guess, had it tested the number of guesses before the winning word.
guess_OutOfGuessesFirst(gm, g, word) ==
    LET e == eval(gm, g, word)
    IN  IF e.panicked
        THEN [panicked |-> TRUE, guesses |-> g, result |-> Ok("Cont"),
              eval_result |-> NoEval]
        ELSE IF e.result.kind = "Ok"
        THEN LET pushed == Append(g, <<word, e.result.validity>>)
             IN  [panicked |-> FALSE, guesses |-> pushed,
                  result |-> IF Len(pushed) = gm.max_guesses
                             THEN Ok("OutOfGuesses")
                             ELSE IF gm.word = word THEN Ok("Win")
                             ELSE Ok("Cont"),
                  eval_result |-> e.result]
        ELSE [panicked |-> FALSE, guesses |-> g, result |-> Err(e.result),
              eval_result |-> e.result]

\* guess, had it counted the guesses before pushing the new one.
guess_CountBeforePush(gm, g, word) ==
    LET e == eval(gm, g, word)
    IN  IF e.panicked
        THEN [panicked |-> TRUE, guesses |-> g, result |-> Ok("Cont"),
              eval_result |-> NoEval]
        ELSE IF e.result.kind = "Ok"
        THEN LET pushed == Append(g, <<word, e.result.validity>>)
             IN  [panicked |-> FALSE, guesses |-> pushed,
                  result |-> IF gm.word = word THEN Ok("Win")
                             ELSE IF Len(g) = gm.max_guesses
                             THEN Ok("OutOfGuesses")
                             ELSE Ok("Cont"),
                  eval_result |-> e.result]
        ELSE [panicked |-> FALSE, guesses |-> g, result |-> Err(e.result),
              eval_result |-> e.result]

\* guess, had it put the new guess in front of the others.
guess_PushFront(gm, g, word) ==
    LET e == eval(gm, g, word)
    IN  IF e.panicked
        THEN [panicked |-> TRUE, guesses |-> g, result |-> Ok("Cont"),
              eval_result |-> NoEval]
        ELSE IF e.result.kind = "Ok"
        THEN LET pushed == <<(<<word, e.result.validity>>)>> \o g
             IN  [panicked |-> FALSE, guesses |-> pushed,
                  result |-> IF gm.word = word THEN Ok("Win")
                             ELSE IF Len(pushed) = gm.max_guesses
                             THEN Ok("OutOfGuesses")
                             ELSE Ok("Cont"),
                  eval_result |-> e.result]
        ELSE [panicked |-> FALSE, guesses |-> g, result |-> Err(e.result),
              eval_result |-> e.result]

\* WordleSession::guess: [panicked, guesses: the guesses after the call,
\* result: the value returned, eval_result: what eval returned].
guess(gm, g, word) ==
    LET e == eval(gm, g, word)
    IN  IF e.panicked
        THEN [panicked |-> TRUE, guesses |-> g, result |-> Ok("Cont"),
              eval_result |-> NoEval]
        ELSE IF e.result.kind = "Ok"
        THEN LET pushed == Append(g, <<word, e.result.validity>>)
             IN  [panicked |-> FALSE, guesses |-> pushed,
                  result |-> IF gm.word = word THEN Ok("Win")
                             ELSE IF Len(pushed) = gm.max_guesses
                             THEN Ok("OutOfGuesses")
                             ELSE Ok("Cont"),
                  eval_result |-> e.result]
        ELSE [panicked |-> FALSE, guesses |-> g, result |-> Err(e.result),
              eval_result |-> e.result]

\* no WordleGame yet
NoGame == [word |-> <<>>, word_list |-> <<>>, word_len |-> 0, max_guesses |-> 0]

\* from_config, had it taken a file of a single line for an empty one.
from_config_SingleLineEmpty(lines, max_guesses, pick) ==
    IF Len(lines) <= 1 THEN [ok |-> FALSE, game |-> NoGame]
    ELSE LET word_list == sort_unstable(lines)
         IN  [ok |-> TRUE,
              game |-> [word |-> word_list[pick],
                        word_list |-> word_list,
                        word_len |-> len(word_list[1]),
                        max_guesses |-> max_guesses]]

\* WordleGame::from_config on a word file that opened and holds the lines
\* `lines`, with `pick` the index drawn by choose(): [ok, game].
from_config(lines, max_guesses, pick) ==
    IF lines = <<>> THEN [ok |-> FALSE, game |-> NoGame]
    ELSE LET word_list == sort_unstable(lines)
         IN  [ok |-> TRUE,
              game |-> [word |-> word_list[pick],
                        word_list |-> word_list,
                        word_len |-> len(word_list[1]),
                        max_guesses |-> max_guesses]]

---------------------------------------------------------------------------
(* The inputs.  Chars: a = 97, b = 98, c = 99, e-acute = 233 (two bytes in  *)
(* UTF-8), LF = 10, CR = 13, space = 32.                                   *)

\* the words a line of the word file may hold: "", "a", "aa", "ab", "ba"
\* and the one-char, two-byte word "é"
FileWords == {<<>>, <<97>>, <<97, 97>>, <<97, 98>>, <<98, 97>>, <<233>>}

RECURSIVE SeqsUpTo(_, _)
SeqsUpTo(S, n) ==
    IF n = 0 THEN {<<>>}
    ELSE LET shorter == SeqsUpTo(S, n - 1)
         IN  shorter \cup {Append(q, x) : q \in shorter, x \in S}

\* the word files: up to MaxLines lines
Files == SeqsUpTo(FileWords, MaxLines)

\* what read_line may return: a word of FileWords or "bb" followed by LF,
\* " ab\r\n", and the empty string at end of input
RawLines ==
    {w \o <<10>> : w \in FileWords \cup {<<98, 98>>}}
        \cup {<<32, 97, 98, 13, 10>>, <<>>}

---------------------------------------------------------------------------
(* The program: a game is built from the word file, a WordleSessionCLI is  *)
(* created on it and run.                                                  *)

TypeOK ==
    /\ pc \in {"config", "open_err", "loaded", "empty_err", "game", "new", "read",
               "guess", "match", "done", "io_err", "panicked",
               "test", "tested"}
    /\ result.ok \in BOOLEAN
    /\ Len(guesses) \in Nat

Init ==
    /\ pc = "config"
    /\ file_lines = <<>>
    /\ game = NoGame
    /\ guesses = <<>>
    /\ input = <<>>
    /\ result = Ok("Cont")
    /\ eval_result = NoEval

\* from_config: File::open fails.
FromConfigOpenFails ==
    /\ pc = "config"
    /\ pc' = "open_err"
    /\ UNCHANGED <<file_lines, game, guesses, input, result, eval_result>>

\* from_config: the file opened and its lines are collected.
FromConfigRead ==
    /\ pc = "config"
    /\ file_lines' \in Files
    /\ pc' = "loaded"
    /\ UNCHANGED <<game, guesses, input, result, eval_result>>

\* from_config, from the test for an empty file on; the lines end up in the
\* WordleGame or are dropped.
FromConfig ==
    /\ pc = "loaded"
    /\ \E max_guesses \in 0..MaxBudget, pick \in 1..MaxLines :
          /\ pick <= Len(file_lines) \/ (file_lines = <<>> /\ pick = 1)
          /\ LET r == from_config(file_lines, max_guesses, pick)
             IN  /\ game' = r.game
                 /\ pc' = IF r.ok THEN "game" ELSE "empty_err"
    /\ file_lines' = <<>>
    /\ UNCHANGED <<guesses, input, result, eval_result>>

\* WordleSessionCLI::new: a session with no guesses.
New ==
    /\ pc = "game"
    /\ guesses' = <<>>
    /\ pc' = "new"
    /\ UNCHANGED <<file_lines, game, input, result, eval_result>>

\* run, up to the loop.
Run ==
    /\ pc = "new"
    /\ result' = Ok("Cont")
    /\ pc' = "read"
    /\ UNCHANGED <<file_lines, game, guesses, input, eval_result>>

\* run_loop, up to the trimmed input.
RunLoopRead ==
    /\ pc = "read"
    /\ \E line \in RawLines : input' = trim(line)
    /\ pc' = "guess"
    /\ UNCHANGED <<file_lines, game, guesses, result, eval_result>>

\* run_loop: writing the board or reading the line fails, run returns.
RunLoopIoError ==
    /\ pc = "read"
    /\ pc' = "io_err"
    /\ UNCHANGED <<file_lines, game, guesses, input, result, eval_result>>

\* run_loop: *prev_result = self.session.guess(&input).
RunLoopGuess ==
    /\ pc = "guess"
    /\ LET r == guess(game, guesses, input)
       IN  IF r.panicked
           THEN /\ pc' = "panicked"
                /\ UNCHANGED <<guesses, result, eval_result>>
           ELSE /\ guesses' = r.guesses
                /\ result' = r.result
                /\ eval_result' = r.eval_result
                /\ pc' = "match"
    /\ UNCHANGED <<file_lines, game, input>>

\* The match of run, had it gone on with the loop after OutOfGuesses.
RunMatch_ContinueOnLost ==
    /\ pc = "match"
    /\ pc' = IF result.ok /\ result.val \in {"Win"}
             THEN "done" ELSE "read"
    /\ UNCHANGED <<file_lines, game, guesses, input, result, eval_result>>

\* The match of run, had it gone on with the loop after a Win.
RunMatch_ContinueOnWin ==
    /\ pc = "match"
    /\ pc' = IF result.ok /\ result.val \in {"OutOfGuesses"}
             THEN "done" ELSE "read"
    /\ UNCHANGED <<file_lines, game, guesses, input, result, eval_result>>

\* run: the match on the result; end_game and break, or continue.
RunMatch ==
    /\ pc = "match"
    /\ pc' = IF result.ok /\ result.val \in {"Win", "OutOfGuesses"}
             THEN "done" ELSE "read"
    /\ UNCHANGED <<file_lines, game, guesses, input, result, eval_result>>

Next ==
    \/ FromConfigOpenFails
    \/ FromConfigRead
    \/ FromConfig
    \/ New
    \/ Run
    \/ RunLoopRead
    \/ RunLoopIoError
    \/ RunLoopGuess
    \/ RunMatch

Spec == Init /\ [][Next]_vars

---------------------------------------------------------------------------
(* The unit tests of eval (tests::eval1 .. eval5): a session is written    *)
(* down with its fields, no guesses made, and eval is called once.         *)

EvalAlphabet == {97, 98, 99}

\* "apple", "grape", "ababa", "babab"
Apple == <<97, 112, 112, 108, 101>>
Grape == <<103, 114, 97, 112, 101>>
Ababa == <<97, 98, 97, 98, 97>>
Babab == <<98, 97, 98, 97, 98>>

\* (target, other word of the list): the two words of tests::eval2 and
\* eval5, "ab" with the one-char word "é" of the same length in bytes (both
\* ways), and every two words of one length up to EvalLen
Fixtures ==
    {<<Apple, Grape>>, <<Ababa, Babab>>,
     <<(<<97, 98>>), (<<233>>)>>, <<(<<233>>), (<<97, 98>>)>>}
        \cup UNION {[1..n -> EvalAlphabet] \X [1..n -> EvalAlphabet] : n \in 0..EvalLen}

\* the WordleGame literal of the tests, for a target and one other word
TestGame(target, other) ==
    [word |-> target,
     word_list |-> IF StrLess(other, target) THEN <<other, target>>
                   ELSE <<target, other>>,
     word_len |-> len(target),
     max_guesses |-> 2]

InitEval ==
    /\ pc = "test"
    /\ file_lines = <<>>
    /\ \E fx \in Fixtures :
          /\ game = TestGame(fx[1], fx[2])
          /\ input \in {fx[1], fx[2]}
    /\ guesses = <<>>
    /\ result = Ok("Cont")
    /\ eval_result = NoEval

\* let r = ws.eval(&word)
TestEval ==
    /\ pc = "test"
    /\ LET r == eval(game, guesses, input)
       IN  IF r.panicked
           THEN pc' = "panicked" /\ UNCHANGED eval_result
           ELSE pc' = "tested" /\ eval_result' = r.result
    /\ UNCHANGED <<file_lines, game, guesses, input, result>>

NextEval == TestEval

SpecEval == InitEval /\ [][NextEval]_vars

---------------------------------------------------------------------------
(* Properties of the session engine under the terminal loop (Spec).        *)

\* the words of a list, the words guessed so far
ListWords(list) == {list[k] : k \in 1..Len(list)}
GuessedWords(g) == {g[k][1] : k \in 1..Len(g)}

\* the GameDefinition invariant on lengths: every word of the dictionary has
\* the length word_len (in bytes, as String::len measures it)
EqualLength(gm) == \A w \in ListWords(gm.word_list) : len(w) = gm.word_len

AllCorrect(n) == [k \in 1..n |-> Correct]

\* a step of the loop in which guess was called and returned
GuessReturns == pc = "guess" /\ pc' = "match"

\* C1: a guess that eval rejects (Invalid, AlreadyUsed or NotInDict) leaves
\* the guesses exactly as they were, and guess returns that rejection.
C1_RejectionKeepsHistory ==
    [][(GuessReturns /\ eval(game, guesses, input).result.kind # "Ok")
          => /\ guesses' = guesses
             /\ eval(game, guesses, input).result.kind
                    \in {"Invalid", "AlreadyUsed", "NotInDict"}
             /\ result' = [ok |-> FALSE,
                           val |-> eval(game, guesses, input).result.kind]]_vars

\* C1 witness: a guess was rejected while the history held a guess.
C1_Witness ==
    /\ pc = "match"
    /\ ~result.ok
    /\ result.val = "NotInDict"
    /\ Len(guesses) >= 1
    /\ game.max_guesses = 2

\* C2 as stated: in any session in progress (of a budget of one guess or
\* more), guessing the target word is accepted, records an all-Correct
\* validity and returns Win.
C2_Original ==
    [][(pc = "guess" /\ input = game.word /\ game.max_guesses >= 1)
          => /\ pc' = "match"
             /\ result' = Ok("Win")
             /\ guesses' = Append(guesses, <<input, AllCorrect(Len(input))>>)]_vars

\* C2, amended: in a session in progress whose dictionary words all have
\* the length word_len, guessing the target word is accepted, records an
\* all-Correct validity and returns Win, also as the max_guesses-th guess.
C2_TargetWins ==
    [][(pc = "guess" /\ input = game.word /\ EqualLength(game))
          => /\ pc' = "match"
             /\ result' = Ok("Win")
             /\ guesses' = Append(guesses, <<input, AllCorrect(Len(input))>>)]_vars

\* C2 witness: the target was guessed as the last guess of the budget.
C2_Witness ==
    /\ pc = "match"
    /\ EqualLength(game)
    /\ input = game.word
    /\ result = Ok("Win")
    /\ game.max_guesses = 2
    /\ Len(guesses) = game.max_guesses

\* C3: an accepted guess other than the target returns OutOfGuesses exactly
\* when the guesses, the new one included, number max_guesses, and Cont
\* when they are fewer.
C3_LostAtBudget ==
    (pc = "match" /\ result.ok /\ input # game.word)
        => /\ (result.val = "OutOfGuesses") <=> (Len(guesses) = game.max_guesses)
           /\ Len(guesses) < game.max_guesses => result.val = "Cont"

\* C3 witness: the budget of two guesses was used up by two wrong words.
C3_Witness ==
    /\ pc = "match"
    /\ result = Ok("OutOfGuesses")
    /\ input # game.word
    /\ Len(guesses) = 2
    /\ game.max_guesses = 2

\* C4 as stated: the guesses never number more than max_guesses.
C4_Original == Len(guesses) <= game.max_guesses

\* no two guesses of a history are the same word
NoRepeat(g) == \A j, k \in 1..Len(g) : g[j][1] = g[k][1] => j = k

\* C5: no word occurs twice among the guesses; guessing a word that is
\* among them returns AlreadyUsed and leaves the guesses as they were.
C5_NoRepeatedGuess ==
    [][/\ NoRepeat(guesses')
       /\ (pc = "guess" /\ input \in GuessedWords(guesses))
             => /\ pc' = "match"
                /\ result' = Err(AlreadyUsed)
                /\ guesses' = guesses]_vars

\* C5 witness: a word accepted before was guessed again and refused.
C5_Witness ==
    /\ pc = "match"
    /\ result = Err(AlreadyUsed)
    /\ input \in GuessedWords(guesses)
    /\ game.max_guesses = 2

\* C6: what eval returns is decided by the first of these that applies:
\* Invalid when the length of the word is not word_len, whether or not the
\* word is in the word list or among the guesses; AlreadyUsed when the word
\* is among the guesses; NotInDict when it is not in the word list; Ok
\* otherwise.
C6_RejectionOrder ==
    [][GuessReturns
          => LET kind == eval_result'.kind
             IN  IF len(input) # game.word_len THEN kind = "Invalid"
                 ELSE IF input \in GuessedWords(guesses)
                 THEN kind = "AlreadyUsed"
                 ELSE IF input \notin ListWords(game.word_list)
                 THEN kind = "NotInDict"
                 ELSE kind = "Ok"]_vars

\* C6 witness: a word of the word list was refused for its length.
C6_Witness ==
    /\ pc = "match"
    /\ eval_result = Invalid
    /\ input \in ListWords(game.word_list)
    /\ len(input) # game.word_len

---------------------------------------------------------------------------
(* Properties of the evaluation of a guess (SpecEval).                     *)

\* the number of times letter L occurs in word w
Occurrences(w, L) == Cardinality({i \in 1..Len(w) : w[i] = L})

\* the positions of guess w that hold letter L and are marked Correct or
\* WrongPos in the validity v
Marked(w, v, L) ==
    {i \in 1..Len(v) : w[i] = L /\ v[i] \in {Correct, WrongPos}}

\* eval was called and accepted the word
Accepted == pc = "tested" /\ eval_result.kind = "Ok"

\* C7: for every letter L, the positions of an accepted guess that hold L
\* and are marked Correct or WrongPos are no more than the occurrences of L
\* in the target.
C7_MarksWithinTargetCount ==
    Accepted =>
        \A L \in {input[i] : i \in 1..Len(input)} :
            Cardinality(Marked(input, eval_result.validity, L))
                <= Occurrences(game.word, L)

\* C7 witness: a letter that the guess holds more often than the target is
\* marked as often as the target holds it, and Incorrect at least once.
C7_Witness ==
    /\ Accepted
    /\ \E L \in {input[i] : i \in 1..Len(input)} :
          /\ Occurrences(game.word, L) >= 1
          /\ Occurrences(input, L) > Occurrences(game.word, L)
          /\ Cardinality(Marked(input, eval_result.validity, L))
                = Occurrences(game.word, L)
          /\ \E i \in 1..Len(input) :
                input[i] = L /\ eval_result.validity[i] = Incorrect

\* The two-pass algorithm as the specification words it.  Pass 1, from
\* position i on: an exact match is marked Correct and takes one from the
\* remaining count of its letter, any other position is marked Incorrect
\* for the time being.
RECURSIVE RefPass1(_, _, _, _, _)
RefPass1(target, w, i, remaining, marks) ==
    IF i > Len(w) THEN [remaining |-> remaining, marks |-> marks]
    ELSE IF w[i] = target[i]
    THEN RefPass1(target, w, i + 1,
                  [remaining EXCEPT ![w[i]] = remaining[w[i]] - 1],
                  Append(marks, Correct))
    ELSE RefPass1(target, w, i + 1, remaining, Append(marks, Incorrect))

\* Pass 2, from position i on, left to right: a position marked Incorrect
\* whose letter has a remaining count above 0 becomes WrongPos and takes
\* one from that count.
RECURSIVE RefPass2(_, _, _, _)
RefPass2(w, i, remaining, marks) ==
    IF i > Len(w) THEN marks
    ELSE IF marks[i] = Incorrect /\ remaining[w[i]] > 0
    THEN RefPass2(w, i + 1,
                  [remaining EXCEPT ![w[i]] = remaining[w[i]] - 1],
                  [marks EXCEPT ![i] = WrongPos])
    ELSE RefPass2(w, i + 1, remaining, marks)

\* the reference evaluation of guess w (of the target's length): the
\* multiset starts as the letter frequencies of the target, 0 for a letter
\* the target lacks
Reference(target, w) ==
    LET letters == {target[i] : i \in 1..Len(target)} \cup {w[i] : i \in 1..Len(w)}
        p1 == RefPass1(target, w, 1,
                       [L \in letters |-> Occurrences(target, L)], <<>>)
    IN  RefPass2(w, 1, p1.remaining, p1.marks)

\* C8: the validity of an accepted guess is what the two-pass reference
\* algorithm gives; "grape" against "apple" gives Incorrect, Incorrect,
\* WrongPos, WrongPos, Correct and "babab" against "ababa" gives WrongPos
\* four times, then Incorrect.
C8_TwoPassReference ==
    Accepted =>
        /\ eval_result.validity = Reference(game.word, input)
        /\ (game.word = Apple /\ input = Grape)
              => eval_result.validity
                    = <<Incorrect, Incorrect, WrongPos, WrongPos, Correct>>
        /\ (game.word = Ababa /\ input = Babab)
              => eval_result.validity
                    = <<WrongPos, WrongPos, WrongPos, WrongPos, Incorrect>>

\* C8 witness: "babab" was evaluated against "ababa".
C8_Witness == Accepted /\ game.word = Ababa /\ input = Babab

---------------------------------------------------------------------------
(* Properties of the guesses and of the game definition (Spec).            *)

\* C9 as stated: the validity of every guess made (in a game of a budget of
\* one guess or more) has word_len entries, one for each char of the
\* guessed word.
C9_Original ==
    game.max_guesses >= 1 => \A k \in 1..Len(guesses) :
        /\ Len(guesses[k][2]) = game.word_len
        /\ Len(guesses[k][2]) = Len(guesses[k][1])

\* from_config has returned a WordleGame
GameBuilt == pc \in {"game", "new", "read", "guess", "match", "done",
                     "io_err", "panicked"}

\* the word list is in ascending order
Sorted(list) == \A j, k \in 1..Len(list) : j < k => ~StrLess(list[k], list[j])

\* all the words of the list have one length
SameLength(list) == \A v, w \in ListWords(list) : len(v) = len(w)

\* C10 as stated: in every WordleGame that from_config returns (here with a
\* budget of one guess or more), every word of the word list has the
\* length word_len, the target is in the word list, the word list is in
\* ascending order and word_len is the length of its first word.
C10_Original ==
    (GameBuilt /\ game.max_guesses >= 1) =>
        /\ EqualLength(game)
        /\ game.word \in ListWords(game.word_list)
        /\ Sorted(game.word_list)
        /\ game.word_len = len(game.word_list[1])

\* C10, amended: in every WordleGame that from_config returns, the target
\* is in the word list, the word list is in ascending order and word_len is
\* the length of its first word; every word of the word list has the length
\* word_len when the words of the file all have one length.
C10_GameDefinition ==
    GameBuilt =>
        /\ SameLength(game.word_list) => EqualLength(game)
        /\ game.word \in ListWords(game.word_list)
        /\ Sorted(game.word_list)
        /\ game.word_len = len(game.word_list[1])

\* C10 witness: a game of three different words of one length, the target
\* not the first of them.
C10_Witness ==
    /\ pc = "game"
    /\ Len(game.word_list) = 3
    /\ EqualLength(game)
    /\ Cardinality(ListWords(game.word_list)) = 3
    /\ game.word = game.word_list[3]

\* a step in which from_config returns, be it a WordleGame or an error
FromConfigReturns == pc = "loaded" /\ pc' # "loaded"

\* the number of times word w occurs in a list
Count(list, w) == Cardinality({k \in 1..Len(list) : list[k] = w})

\* C11: from_config returns an error and no WordleGame when the word file
\* holds no line, and a WordleGame, made of the lines of the file, when it
\* holds one or more.
C11_EmptyDictionary ==
    [][FromConfigReturns
          => IF file_lines = <<>>
             THEN pc' = "empty_err" /\ game' = NoGame
             ELSE /\ pc' = "game"
                  /\ Len(game'.word_list) = Len(file_lines)
                  /\ \A w \in ListWords(file_lines) :
                        Count(game'.word_list, w) = Count(file_lines, w)]_vars

\* C11 witness: from_config has failed on an empty file.
C11_Witness == pc = "empty_err" /\ game = NoGame

---------------------------------------------------------------------------
(* More properties of the evaluation of a guess (SpecEval).                *)

\* position i of guess w holds the letter the target t holds there
Exact(t, w, i) == i <= Len(t) /\ w[i] = t[i]

\* the positions of guess w before position i that hold letter L and are
\* no exact match
EarlierInexact(t, w, i, L) ==
    {j \in 1..(i - 1) : w[j] = L /\ ~Exact(t, w, j)}

\* what is left of letter L of the target once the exact matches of the
\* guess are taken
LeftOver(t, w, L) ==
    Occurrences(t, L) - Cardinality({j \in 1..Len(w) : w[j] = L /\ Exact(t, w, j)})

\* C12: in the validity of an accepted guess an exact match is always
\* Correct, a letter the target lacks is always Incorrect, and of the
\* positions that hold a letter L without matching exactly the leftmost
\* ones, as many as the target has L left over after the exact matches,
\* are WrongPos and the others Incorrect.
C12_LeftmostWrongPos ==
    Accepted =>
        LET t == game.word
            w == input
            v == eval_result.validity
        IN  /\ Len(v) = Len(w)
            /\ \A i \in 1..Len(w) :
                  /\ Exact(t, w, i) => v[i] = Correct
                  /\ Occurrences(t, w[i]) = 0 => v[i] = Incorrect
                  /\ ~Exact(t, w, i) =>
                        v[i] = IF Cardinality(EarlierInexact(t, w, i, w[i]))
                                      < LeftOver(t, w, w[i])
                               THEN WrongPos ELSE Incorrect

\* C12 witness: of two inexact positions of one letter the left one is
\* WrongPos and the right one Incorrect, and the same letter is Correct at
\* a position to the right of the first.
C12_Witness ==
    /\ Accepted
    /\ \E i, j, k \in 1..Len(input) :
          /\ i < j /\ i < k
          /\ input[i] = input[j] /\ input[i] = input[k]
          /\ eval_result.validity[i] = WrongPos
          /\ eval_result.validity[j] = Incorrect
          /\ eval_result.validity[k] = Correct

---------------------------------------------------------------------------
(* More properties of the session under the terminal loop (Spec).          *)

\* C13: a guess that eval accepts adds one record, the word with the
\* validity eval returned, after the guesses made before, which stay as
\* they were and in their order; no call of guess, accepted, rejected or
\* panicking, changes the WordleGame.
C13_AppendOnly ==
    [][(pc = "guess" /\ pc' # "guess")
          => /\ game' = game
             /\ (pc' = "match" /\ eval(game, guesses, input).result.kind = "Ok")
                   => /\ Len(guesses') = Len(guesses) + 1
                      /\ SubSeq(guesses', 1, Len(guesses)) = guesses
                      /\ guesses'[Len(guesses')]
                            = <<input, eval(game, guesses, input).result.validity>>]_vars

\* C13 witness: a second guess was accepted after a first, different one.
C13_Witness ==
    /\ pc = "match"
    /\ result.ok
    /\ Len(guesses) = 2
    /\ guesses[2][1] = input
    /\ guesses[1][1] # input
    /\ game.max_guesses = 2

\* a result that ends the game
Terminal(r) == r.ok /\ r.val \in {"Win", "OutOfGuesses"}

\* C14: the loop starts on a session without guesses, calls guess once for
\* each line read, reads the next line after every rejection and every
\* Cont, and after the first Win or OutOfGuesses ends without another call
\* of guess.
C14_LoopStopsAtTerminal ==
    [][/\ pc = "new" => guesses = <<>>
       /\ pc = "read" => pc' \in {"guess", "io_err"} /\ guesses' = guesses
       /\ pc = "guess" => pc' \in {"match", "panicked"}
       /\ pc' = "guess" => ~Terminal(result')
       /\ pc = "match" => pc' = IF Terminal(result) THEN "done" ELSE "read"
       /\ pc # "done"]_vars

\* C14 witness: the loop has ended on a Win that was the second guess.
C14_Witness ==
    /\ pc = "done"
    /\ result = Ok("Win")
    /\ Len(guesses) = 2

---------------------------------------------------------------------------
(* The game with a player who goes on playing: the terminal can be read    *)
(* and written, every step of the program that can be taken is taken, and  *)
(* the player again and again enters a word that eval accepts, as long as   *)
(* there is one.                                                           *)

\* the player enters a line whose word eval accepts
SubmitAccepted ==
    /\ RunLoopRead
    /\ eval(game, guesses, input').result.kind = "Ok"

NextPlay ==
    \/ FromConfigOpenFails
    \/ FromConfigRead
    \/ FromConfig
    \/ New
    \/ Run
    \/ RunLoopRead
    \/ RunLoopGuess
    \/ RunMatch

SpecPlay ==
    /\ Init
    /\ [][NextPlay]_vars
    /\ WF_vars(New)
    /\ WF_vars(Run)
    /\ WF_vars(RunLoopRead)
    /\ WF_vars(RunLoopGuess)
    /\ WF_vars(RunMatch)
    /\ SF_vars(SubmitAccepted)

\* a WordleGame that satisfies the invariant of a game definition, with a
\* budget of one guess or more
ValidGame ==
    /\ GameBuilt
    /\ EqualLength(game)
    /\ game.word \in ListWords(game.word_list)
    /\ game.max_guesses >= 1

\* C15 as stated: a game on a valid definition, with a player who keeps
\* entering accepted words, ends with a Win or OutOfGuesses, and by then
\* no more than max_guesses guesses were accepted.
C15_Original ==
    /\ (ValidGame /\ pc = "read") ~> (pc = "done" /\ Terminal(result))
    /\ [](ValidGame => Len(guesses) <= game.max_guesses)

\* C16 and the following are properties of Spec again.

\* a session exists and no guess has returned Win or OutOfGuesses
InProgress ==
    \/ pc \in {"new", "read", "guess"}
    \/ pc = "match" /\ ~Terminal(result)

\* C16: while a session is in progress on a WordleGame whose word list is
\* in ascending order, holds the target and only words of the length
\* word_len, eval accepts the target word and guess would return Win for
\* it: some guess is always acceptable.
C16_TargetAcceptable ==
    (InProgress /\ Sorted(game.word_list) /\ EqualLength(game)
        /\ game.word \in ListWords(game.word_list))
        => /\ ~eval(game, guesses, game.word).panicked
           /\ eval(game, guesses, game.word).result.kind = "Ok"
           /\ guess(game, guesses, game.word).result = Ok("Win")

\* C16 witness: a session in progress on such a game after one accepted
\* guess and a rejected one, the target being the last word of the list.
C16_Witness ==
    /\ pc = "read"
    /\ EqualLength(game)
    /\ Len(game.word_list) = 3
    /\ game.word = game.word_list[3]
    /\ game.max_guesses = 2
    /\ Len(guesses) = 1
    /\ ~result.ok

\* C17: every record of guesses holds a word of the word list whose length
\* (String::len) is word_len, and the validity stored with it is what
\* eval_valid gives for that word against the target, whatever the guesses
\* were when it was made.
C17_HistoryRecords ==
    \A k \in 1..Len(guesses) :
        LET w == guesses[k][1]
        IN  /\ w \in ListWords(game.word_list)
            /\ len(w) = game.word_len
            /\ ~eval_valid(game.word, w).panicked
            /\ guesses[k][2] = eval_valid(game.word, w).result

\* C17 witness: two records, the first of a word that shares letters with
\* the target at other positions, the second of the target.
C17_Witness ==
    /\ Len(guesses) = 2
    /\ guesses[1][2] = <<WrongPos, WrongPos>>
    /\ guesses[2][1] = game.word
    /\ game.max_guesses = 2

\* C18: under the loop of run, the target is among the guesses exactly when
\* the last result is Win, and then it is the last record and no other; a
\* result of OutOfGuesses comes with max_guesses records none of which is
\* the target; and once guess has returned Win or OutOfGuesses neither the
\* result nor the guesses change again.
C18_WonIffTargetLast ==
    /\ [](/\ game.word \in GuessedWords(guesses) <=> result = Ok("Win")
          /\ \A k \in 1..Len(guesses) :
                guesses[k][1] = game.word => k = Len(guesses)
          /\ result = Ok("OutOfGuesses")
                => /\ game.word \notin GuessedWords(guesses)
                   /\ Len(guesses) = game.max_guesses)
    /\ [][Terminal(result) => result' = result /\ guesses' = guesses]_vars

\* C18 witness: the loop has ended on a Win at the first guess of two.
C18_Witness ==
    /\ pc = "done"
    /\ result = Ok("Win")
    /\ Len(guesses) = 1
    /\ guesses[1][1] = game.word
    /\ game.max_guesses = 2

\* the two words have one length, in chars or in bytes
OneLength(v, w) == Len(v) = Len(w) \/ len(v) = len(w)

\* C19: when guess has accepted a word of the length of the target, the
\* validity it recorded is Correct at every char exactly when the word is
\* the target, and it returned Win exactly when that validity is Correct
\* at every char.
C19_AllCorrectIffTarget ==
    (pc = "match" /\ result.ok /\ OneLength(input, game.word))
        => /\ guesses[Len(guesses)] = <<input, eval_result.validity>>
           /\ eval_result.validity = AllCorrect(Len(input))
                <=> input = game.word
           /\ result = Ok("Win")
                <=> eval_result.validity = AllCorrect(Len(input))

\* C19 witness: guess has accepted a word made of the letters of the target
\* in another order, and has not returned Win.
C19_Witness ==
    /\ pc = "match"
    /\ result = Ok("Cont")
    /\ OneLength(input, game.word)
    /\ input # game.word
    /\ eval_result.validity = <<WrongPos, WrongPos>>

=============================================================================
